---------------------------- MODULE Spec2Model ----------------------------
(***************************************************************************)
(* WaveSim: an analog cellular automaton of fluid surface dynamics.        *)
(*                                                                         *)
(* The model follows src/unnamed/part_000: the Utils helpers, the Ripple   *)
(* force generator, the WaveModel grid engine and the WaveSim driver with  *)
(* its interval timer.                                                     *)
(*                                                                         *)
(* Numbers.  JavaScript Numbers are modelled in fixed point: the integer n *)
(* stands for n / Scale, and a product is truncated toward zero to that    *)
(* resolution.  Zero is exact (0 * x = 0, 0 + x = x) as it is for doubles. *)
(* Math.sin is computed by quadrant reduction and a Taylor polynomial, so  *)
(* sin(0) = 0 exactly and the sine at a half turn is 0 where the double    *)
(* result is about 1.2e-16.                                                *)
(* The spawn rate and the spawn counter are IEEE-754 doubles, added with   *)
(* round-to-nearest as the program adds them.                              *)
(***************************************************************************)
EXTENDS Integers, Sequences, FiniteSets, TLC

\* Fixed-point resolution of a Number: n stands for n / Scale.
Scale == 1000

\* Math.PI at the fixed-point resolution.
PI == 3142

\* var FORCE_INFLUENCE = 0.1
FORCE_INFLUENCE == 100

\* NaN, the "unset" spawn fraction of a configuration.
NaN == -1

isNaN(x) == x = NaN

\* The value undefined (a missing argument, an unassigned field).
UNDEFINED == [undefined |-> TRUE]

\* null / never assigned handle.
NULL == 0

\* null held by a variable whose other values are objects.
NullObject == [null |-> TRUE]

\* A time in milliseconds held by a variable that may also be undefined.
Time(ms) == [ms |-> ms]

-----------------------------------------------------------------------------
(* Bounds of the exploration *)

\* Number of simulation steps the timer may execute.
MaxTicks == 4

\* Number of start() calls.
MaxStarts == 1

\* Number of direct insertRipple(new Ripple(model)) calls.
MaxInserts == 1

\* Grids of at most this many cells are checked under every visiting order.
MaxPermCells == 4

\* How far outside the grid the accessor is probed.
MaxOff == 2

\* Steps run on one wave model when following its spawn counter.
MaxSpawnTicks == 10

-----------------------------------------------------------------------------
(* Number arithmetic *)

Abs(x) == IF x < 0 THEN -x ELSE x

\* a * b on Numbers (truncated toward zero at the fixed-point resolution).
Mul(a, b) ==
    LET p == a * b
    IN  IF p >= 0 THEN p \div Scale ELSE -((-p) \div Scale)

\* The JavaScript remainder a % b (sign of the dividend), b # 0.
JsRem(a, b) ==
    IF a >= 0 THEN a % Abs(b) ELSE -((-a) % Abs(b))

\* ~~x for a nonnegative fixed-point x: the integer part.
Trunc(x) == x \div Scale

\* Math.sin on the first quarter turn: the angle is 2*PI*a/b with 0 <= 4a <= b.
SinQuarter(a, b) ==
    LET x  == (2 * PI * a) \div b
        x2 == (x * x) \div Scale
        x3 == (x2 * x) \div Scale
        x5 == (x3 * x2) \div Scale
        x7 == (x5 * x2) \div Scale
    IN  x - (x3 \div 6) + (x5 \div 120) - (x7 \div 5040)

\* Math.sin(p / q * Math.PI * 2) for integers p and q >= 1.
SinTurn(p, q) ==
    LET sgn == IF p < 0 THEN -1 ELSE 1
        t   == Abs(p) % q
        s   == IF 4 * t <= q          THEN SinQuarter(t, q)
               ELSE IF 2 * t <= q     THEN SinQuarter(q - 2 * t, 2 * q)
               ELSE IF 4 * t <= 3 * q THEN -SinQuarter(2 * t - q, 2 * q)
               ELSE -SinQuarter(q - t, q)
    IN  sgn * s

-----------------------------------------------------------------------------
(* Utils *)

\* IEEE-754 doubles, where the rounding of an addition decides what the
\* program does (the spawn counter).  A double x with |x| < 4 that is a
\* multiple of 2^-58 is the record [neg, hi, lo], standing for
\* (hi * Limb + lo) * 2^-58 with 0 <= lo < Limb, negated when neg.  Every
\* double of magnitude in [2^-5, 4) has this form, and so has every sum of two
\* of them.
Limb == 536870912

\* The spacing of the doubles (53 significant bits) in the binade that holds
\* hi * 2^-29, in units of 2^-58.
dblQuantum(hi) ==
    IF hi >= 2 * Limb THEN 128
    ELSE IF hi >= Limb THEN 64
    ELSE IF hi >= Limb \div 2 THEN 32
    ELSE IF hi >= Limb \div 4 THEN 16
    ELSE IF hi >= Limb \div 8 THEN 8
    ELSE IF hi >= Limb \div 16 THEN 4
    ELSE IF hi >= Limb \div 32 THEN 2
    ELSE 1

\* Round to nearest, ties to even: the double nearest the exact magnitude
\* (hi * Limb + lo) * 2^-58 (+ a nonzero amount below 2^-58 when sticky).
dblRound(hi, lo, sticky) ==
    LET ulp  == dblQuantum(hi)
        rest == lo % ulp
        down == lo - rest
        up   == \/ 2 * rest > ulp
                \/ 2 * rest = ulp /\ (sticky \/ (down \div ulp) % 2 = 1)
        lo2  == IF up THEN down + ulp ELSE down
    IN  IF lo2 >= Limb THEN [hi |-> hi + 1, lo |-> lo2 - Limb]
                       ELSE [hi |-> hi, lo |-> lo2]

RECURSIVE divBits(_, _)
\* Long division by q: the next st.n binary digits of the quotient from the
\* remainder st.r, the last 29 of them appended to st.lo and the ones before
\* to st.hi.
divBits(q, st) ==
    IF st.n = 0 THEN st
    ELSE LET bit == IF 2 * st.r >= q THEN 1 ELSE 0
         IN  divBits(q, [n  |-> st.n - 1,
                         hi |-> IF st.n > 29 THEN 2 * st.hi + bit ELSE st.hi,
                         lo |-> IF st.n > 29 THEN st.lo ELSE 2 * st.lo + bit,
                         r  |-> 2 * st.r - bit * q])

\* The Number a literal or a quotient of small integers p / q evaluates to
\* (q > 0): the double nearest p / q.
Dbl(p, q) ==
    LET d == divBits(q, [n |-> 58, hi |-> Abs(p) \div q, lo |-> 0, r |-> Abs(p) % q])
        m == dblRound(d.hi, d.lo, d.r # 0)
    IN  [neg |-> p < 0, hi |-> m.hi, lo |-> m.lo]

\* x < 0 and x > 0
dblLt0(x) == x.neg /\ (x.hi # 0 \/ x.lo # 0)

dblGt0(x) == ~x.neg /\ (x.hi # 0 \/ x.lo # 0)

\* -x
dblNeg(x) == [neg |-> ~x.neg, hi |-> x.hi, lo |-> x.lo]

\* a + b for a, b >= 0: the exact sum, rounded.
dblAdd(a, b) ==
    LET lo == (a.lo + b.lo) % Limb
        hi == a.hi + b.hi + (a.lo + b.lo) \div Limb
        m  == dblRound(hi, lo, FALSE)
    IN  [neg |-> FALSE, hi |-> m.hi, lo |-> m.lo]

\* Variant of dblGe1: x > 1.
dblGt1(x) == ~x.neg /\ (x.hi > Limb \/ (x.hi = Limb /\ x.lo > 0))

\* x >= 1
dblGe1(x) == ~x.neg /\ x.hi >= Limb

\* x - 1 for x >= 1 (exact: the result is a multiple of the spacing at x).
dblDec(x) == [x EXCEPT !.hi = @ - Limb]

\* Utils.numArray(size, val) with val omitted: size zeros, indexed from 0.
numArray(size) == [c \in 0..(size - 1) |-> 0]

\* Utils.numArray2D(rows, cols)
numArray2D(rows, cols) == [r \in 0..(rows - 1) |-> numArray(cols)]

\* Utils.mod(n, m):  n >= 0 ? n % m : ((n % m) + m) % n
mod(n, m) ==
    IF n >= 0 THEN JsRem(n, m) ELSE JsRem(JsRem(n, m) + m, n)

\* Utils.boundVal(v, min, max) = Math.max(Math.min(v, max), min)
boundVal(v, min, max) ==
    LET lo == IF v < max THEN v ELSE max
    IN  IF lo > min THEN lo ELSE min

-----------------------------------------------------------------------------
(* WaveModel: the grid engine.                                              *)
(*                                                                         *)
(* A WaveModel object is a record.  Its five matrices live in the heap     *)
(* wm.buf and the fields F, V, V_, M, M_ are references (heap addresses),  *)
(* so that exchanging two fields exchanges buffers without copying.  The   *)
(* two ripple arrays live in the heap wm.arr in the same way and hold      *)
(* references into wm.obj, the Ripple objects in order of construction.    *)

\* The result of reading a cell through the accessor.
Num(x) == [t |-> "number", v |-> x]

Undef == [t |-> "undefined", v |-> 0]

TypeError == [t |-> "TypeError", v |-> 0]

\* cells[r][c] on a rows x cols matrix: cells[r] is undefined for a row
\* out of range (indexing it throws), cells[r][c] is undefined for a column
\* out of range.
readCell(cells, rows, cols, r, c) ==
    IF r < 0 \/ r >= rows THEN TypeError
    ELSE IF c < 0 \/ c >= cols THEN Undef
    ELSE Num(cells[r][c])

\* Variant of getterFactory whose closure reads the buffer being written (M_)
\* rather than the one named by propName.
getterFactoryNext(wm, propName, defValue) ==
    [cells    |-> wm.M_,
     isTorus  |-> wm.conf.isTorus,
     rows     |-> wm.rows,
     cols     |-> wm.cols,
     defValue |-> defValue]

\* getterFactory.call(wm, propName, defValue): the closure's captured values.
\* cells is the buffer the property refers to when the getter is made.
getterFactory(wm, propName, defValue) ==
    [cells    |-> wm[propName],
     isTorus  |-> wm.conf.isTorus,
     rows     |-> wm.rows,
     cols     |-> wm.cols,
     defValue |-> defValue]

\* Variant of the closure whose range test is r > rows, c > cols.
getOffByOne(buf, g, r, c) ==
    IF g.isTorus
        THEN readCell(buf[g.cells], g.rows, g.cols, mod(r, g.rows), mod(c, g.cols))
        ELSE IF r < 0 \/ r > g.rows \/ c < 0 \/ c > g.cols
                 THEN Num(g.defValue)
                 ELSE readCell(buf[g.cells], g.rows, g.cols, r, c)

\* The closure returned by getterFactory, applied to (r, c) on heap buf.
get(buf, g, r, c) ==
    IF g.isTorus
        THEN readCell(buf[g.cells], g.rows, g.cols, mod(r, g.rows), mod(c, g.cols))
        ELSE IF r < 0 \/ r >= g.rows \/ c < 0 \/ c >= g.cols
                 THEN Num(g.defValue)
                 ELSE readCell(buf[g.cells], g.rows, g.cols, r, c)

\* buf with cell (r, c) of buffer h set to x.
writeCell(buf, h, r, c, x) == [buf EXCEPT ![h][r][c] = x]

\* Variant of dampen that keeps the fraction conf.damping of the velocity.
dampenKeep(wm, v) == Mul(v, wm.conf.damping)

\* The damped velocity: v * (1 - conf.damping) (line 362).
dampen(wm, v) == Mul(v, Scale - wm.conf.damping)

\* Variant of updateCell that writes the new magnitude in place, into M.
updateCellInPlace(wm, getM, buf, r, c) ==
    LET F  == wm.F
        V  == wm.V
        V_ == wm.V_
        M  == wm.M
        M_ == wm.M
        \* V_[r][c] = V[r][c] * (1 - conf.damping)
        b1 == writeCell(buf, V_, r, c, dampen(wm, buf[V][r][c]))
        \* F[r][c] += - M[r][c] * (4 + 4 * Math.PI) + the eight neighbours
        b2 == writeCell(b1, F, r, c,
                  b1[F][r][c]
                  + Mul(-b1[M][r][c], 4 * Scale + 4 * PI)
                  + get(b1, getM, r - 1, c - 1).v
                  + Mul(get(b1, getM, r    , c - 1).v, PI)
                  + get(b1, getM, r + 1, c - 1).v
                  + Mul(get(b1, getM, r - 1, c    ).v, PI)
                  + Mul(get(b1, getM, r + 1, c    ).v, PI)
                  + get(b1, getM, r - 1, c + 1).v
                  + Mul(get(b1, getM, r    , c + 1).v, PI)
                  + get(b1, getM, r + 1, c + 1).v)
        \* V_[r][c] += F[r][c] * FORCE_INFLUENCE
        b3 == writeCell(b2, V_, r, c, b2[V_][r][c] + Mul(b2[F][r][c], FORCE_INFLUENCE))
        \* M_[r][c] = M[r][c] + V_[r][c]
        b4 == writeCell(b3, M_, r, c, b3[M][r][c] + b3[V_][r][c])
    IN  \* F[r][c] = 0
        writeCell(b4, F, r, c, 0)

\* The body of modelStep's loop for cell (r, c): lines 362-382.
updateCell(wm, getM, buf, r, c) ==
    LET F  == wm.F
        V  == wm.V
        V_ == wm.V_
        M  == wm.M
        M_ == wm.M_
        \* V_[r][c] = V[r][c] * (1 - conf.damping)
        b1 == writeCell(buf, V_, r, c, dampen(wm, buf[V][r][c]))
        \* F[r][c] += - M[r][c] * (4 + 4 * Math.PI) + the eight neighbours
        b2 == writeCell(b1, F, r, c,
                  b1[F][r][c]
                  + Mul(-b1[M][r][c], 4 * Scale + 4 * PI)
                  + get(b1, getM, r - 1, c - 1).v
                  + Mul(get(b1, getM, r    , c - 1).v, PI)
                  + get(b1, getM, r + 1, c - 1).v
                  + Mul(get(b1, getM, r - 1, c    ).v, PI)
                  + Mul(get(b1, getM, r + 1, c    ).v, PI)
                  + get(b1, getM, r - 1, c + 1).v
                  + Mul(get(b1, getM, r    , c + 1).v, PI)
                  + get(b1, getM, r + 1, c + 1).v)
        \* V_[r][c] += F[r][c] * FORCE_INFLUENCE
        b3 == writeCell(b2, V_, r, c, b2[V_][r][c] + Mul(b2[F][r][c], FORCE_INFLUENCE))
        \* M_[r][c] = M[r][c] + V_[r][c]
        b4 == writeCell(b3, M_, r, c, b3[M][r][c] + b3[V_][r][c])
    IN  \* F[r][c] = 0
        writeCell(b4, F, r, c, 0)

\* The cells in the order of the nested for loops: rows outer, columns inner.
rowMajor(rows, cols) ==
    [i \in 1..(rows * cols) |-> <<(i - 1) \div cols, (i - 1) % cols>>]

RECURSIVE cellLoopKeepForce(_, _, _, _)
\* Variant of cellLoop in which the force a cell held before its update is
\* still in F after it, instead of 0.
cellLoopKeepForce(wm, getM, order, st) ==
    IF st.i > Len(order) THEN st.buf
    ELSE cellLoopKeepForce(wm, getM, order,
             [buf |-> writeCell(
                          updateCell(wm, getM, st.buf, order[st.i][1], order[st.i][2]),
                          wm.F, order[st.i][1], order[st.i][2],
                          st.buf[wm.F][order[st.i][1]][order[st.i][2]]),
              i   |-> st.i + 1])

RECURSIVE cellLoop(_, _, _, _)
\* The loop over the cells order[st.i..]; st is the loop's state: the heap
\* and the position in the order.
cellLoop(wm, getM, order, st) ==
    IF st.i > Len(order) THEN st.buf
    ELSE cellLoop(wm, getM, order,
                  [buf |-> updateCell(wm, getM, st.buf, order[st.i][1], order[st.i][2]),
                   i   |-> st.i + 1])

\* Variant of modelStepIn whose accessor has the default value 1.
modelStepInDefOne(wm, order) ==
    LET getM == getterFactory(wm, "M", Scale)
        buf2 == cellLoop(wm, getM, order, [buf |-> wm.buf, i |-> 1])
    IN  \* this.V = V_; this.V_ = V; this.M = M_; this.M_ = M
        [wm EXCEPT !.buf = buf2,
                   !.V = wm.V_, !.V_ = wm.V,
                   !.M = wm.M_, !.M_ = wm.M]

\* Variant of modelStepIn that copies the new velocities and magnitudes into
\* the buffers V and M and keeps the references.
modelStepInCopy(wm, order) ==
    LET getM == getterFactory(wm, "M", 0)
        buf2 == cellLoop(wm, getM, order, [buf |-> wm.buf, i |-> 1])
    IN  [wm EXCEPT !.buf = [buf2 EXCEPT ![wm.V] = buf2[wm.V_],
                                        ![wm.M] = buf2[wm.M_]]]

\* modelStep with the cells visited in the given order.
modelStepIn(wm, order) ==
    LET getM == getterFactory(wm, "M", 0)
        buf2 == cellLoop(wm, getM, order, [buf |-> wm.buf, i |-> 1])
    IN  \* this.V = V_; this.V_ = V; this.M = M_; this.M_ = M
        [wm EXCEPT !.buf = buf2,
                   !.V = wm.V_, !.V_ = wm.V,
                   !.M = wm.M_, !.M_ = wm.M]

\* WaveModel.prototype.modelStep
modelStep(wm) == modelStepIn(wm, rowMajor(wm.rows, wm.cols))

-----------------------------------------------------------------------------
(* Ripple *)

\* The values Math.random() may return (in [0, 1), fixed point).
RandVals == {0, 999}

\* The Math.random() results one Ripple.prototype.init consumes under conf:
\* a draw is made only where the configuration asks for one.
DrawsFor(conf) ==
    [w : IF conf.wavelength < 0 THEN RandVals ELSE {0},
     r : IF isNaN(conf.spawnRow) THEN RandVals ELSE {0},
     c : IF isNaN(conf.spawnCol) THEN RandVals ELSE {0},
     m : IF conf.magnitude < 0 THEN RandVals ELSE {0}]

\* new Ripple(model): the constructor and Ripple.prototype.init, with the
\* Math.random() results rnd.
newRipple(wm, rnd) ==
    LET conf == wm.conf
        wavelength ==
            1 + (IF conf.wavelength < 0
                     THEN Trunc(rnd.w * (-conf.wavelength))
                     ELSE conf.wavelength)
    IN  [wavelength |-> wavelength,
         iWave      |-> wavelength,
         r   |-> Trunc((IF isNaN(conf.spawnRow) THEN rnd.r ELSE conf.spawnRow) * wm.rows),
         c   |-> Trunc((IF isNaN(conf.spawnCol) THEN rnd.c ELSE conf.spawnCol) * wm.cols),
         mag |-> IF conf.magnitude < 0 THEN Mul(rnd.m, -conf.magnitude)
                                       ELSE conf.magnitude]

\* Variant of rippleForce that takes wavePos after the decrement of iWave.
rippleForceAfter(rp) ==
    Mul(rp.mag, SinTurn(rp.wavelength - rp.iWave + 1, rp.wavelength))

\* The value Ripple.prototype.applyForce writes: mag * sin(wavePos * 2 PI)
\* with wavePos = (wavelength - iWave) / wavelength.
rippleForce(rp) == Mul(rp.mag, SinTurn(rp.wavelength - rp.iWave, rp.wavelength))

\* Variant of applyForce that adds the ripple's force to the cell (+=).
applyForceAdd(wm, id) ==
    LET rp == wm.obj[id]
    IN  [wm EXCEPT !.buf = writeCell(wm.buf, wm.F, rp.r, rp.c,
                                     wm.buf[wm.F][rp.r][rp.c] + rippleForce(rp)),
                   !.obj[id].iWave = rp.iWave - 1]

\* Variant of applyForce that takes two ticks off the counter (iWave -= 2).
applyForceSkip(wm, id) ==
    LET rp == wm.obj[id]
    IN  [wm EXCEPT !.buf = writeCell(wm.buf, wm.F, rp.r, rp.c, rippleForce(rp)),
                   !.obj[id].iWave = rp.iWave - 2]

\* Ripple.prototype.applyForce on the Ripple object id of model wm: the model
\* after the call.
applyForce(wm, id) ==
    LET rp == wm.obj[id]
    IN  [wm EXCEPT !.buf = writeCell(wm.buf, wm.F, rp.r, rp.c, rippleForce(rp)),
                   !.obj[id].iWave = rp.iWave - 1]

\* Variant of applyForceResult that tests iWave as it was before the decrement.
applyForceResultBefore(wm, id) == wm.obj[id].iWave + 1 # 0

\* The value applyForce returned, read off the model after the call:
\* this.iWave !== 0.
applyForceResult(wm, id) == wm.obj[id].iWave # 0

-----------------------------------------------------------------------------
(* WaveModel: construction and force generation *)

\* WaveModel.Conf.DRIZZLE
DRIZZLE ==
    [isTorus |-> FALSE, ripples |-> Dbl(1, 20), wavelength |-> 10,
     magnitude |-> -20 * Scale, damping |-> (2 * Scale) \div 100,
     spawnCol |-> NaN, spawnRow |-> NaN]

\* The WaveModel constructor.  It returns [threw |-> TRUE] where the code
\* throws: the last statement reads conf.ripples from the argument, not from
\* this.conf, and the argument is undefined when none was passed.
WaveModel(rows, cols, conf) ==
    LET thisConf == IF conf = UNDEFINED THEN DRIZZLE ELSE conf
    IN  IF conf = UNDEFINED
            THEN [threw |-> TRUE]
            ELSE [threw    |-> FALSE,
                  rows     |-> rows,
                  cols     |-> cols,
                  conf     |-> thisConf,
                  buf      |-> [h \in 1..5 |-> numArray2D(rows, cols)],
                  F  |-> 1, V  |-> 2, V_ |-> 3, M  |-> 4, M_ |-> 5,
                  obj      |-> << >>,
                  arr      |-> [h \in 1..2 |-> << >>],
                  ripples  |-> 1,
                  ripples_ |-> 2,
                  nRipples |-> 0,
                  ripplesToGen |-> IF dblLt0(conf.ripples) THEN dblNeg(conf.ripples)
                                                          ELSE Dbl(0, 1)]

\* a[i] = x on a JavaScript array held as a sequence (index i is position
\* i + 1); i never exceeds the length here.
arraySet(a, i, x) ==
    IF i < Len(a) THEN [a EXCEPT ![i + 1] = x] ELSE Append(a, x)

\* Variant of toGenAfterAdd that replenishes the counter for a negative rate
\* as well, by its magnitude.
toGenAfterAddAbs(wm) ==
    IF dblGt0(wm.conf.ripples) \/ dblLt0(wm.conf.ripples)
        THEN dblAdd(wm.ripplesToGen, [wm.conf.ripples EXCEPT !.neg = FALSE])
        ELSE wm.ripplesToGen

\* The spawn counter after genForces adds the configured rate (lines 403-405).
toGenAfterAdd(wm) ==
    IF dblGt0(wm.conf.ripples) THEN dblAdd(wm.ripplesToGen, wm.conf.ripples)
                               ELSE wm.ripplesToGen

\* The number of iterations of the loop "while(this.ripplesToGen >= 1)".
nSpawns(wm) == toGenAfterAdd(wm).hi \div Limb

RECURSIVE spawnLoop(_, _, _, _)
\* The spawn loop (lines 407-411): st.n is the local nRipples.
spawnLoop(st, ripples, rnds, k) ==
    IF dblGe1(st.wm.ripplesToGen)
        THEN LET id == Len(st.wm.obj) + 1
                 wm2 == [st.wm EXCEPT
                            !.obj = Append(@, newRipple(st.wm, rnds[k])),
                            !.arr[ripples] = arraySet(@, st.n, id),
                            !.ripplesToGen = dblDec(@)]
             IN  spawnLoop([wm |-> wm2, n |-> st.n + 1], ripples, rnds, k + 1)
        ELSE st

RECURSIVE applyLoopNoCompact(_, _, _, _, _, _)
\* Variant of applyLoop that keeps a surviving ripple at its own index,
\* ripples_[i], instead of ripples_[j++].
applyLoopNoCompact(wm, ripples, ripples_, nRipples, i, j) ==
    IF i < nRipples
        THEN LET id  == wm.arr[ripples][i + 1]
                 wm2 == applyForce(wm, id)
             IN  IF applyForceResult(wm2, id)
                     THEN applyLoopNoCompact(
                              [wm2 EXCEPT !.arr[ripples_] = arraySet(@, i, id)],
                              ripples, ripples_, nRipples, i + 1, j + 1)
                     ELSE applyLoopNoCompact(wm2, ripples, ripples_, nRipples,
                                             i + 1, j)
        ELSE [wm |-> wm, j |-> j]

RECURSIVE applyLoop(_, _, _, _, _, _)
\* The loop applying the ripples (lines 413-418): i and j are its counters.
applyLoop(wm, ripples, ripples_, nRipples, i, j) ==
    IF i < nRipples
        THEN LET id  == wm.arr[ripples][i + 1]
                 wm2 == applyForce(wm, id)
             IN  IF applyForceResult(wm2, id)
                     THEN applyLoop([wm2 EXCEPT !.arr[ripples_] = arraySet(@, j, id)],
                                    ripples, ripples_, nRipples, i + 1, j + 1)
                     ELSE applyLoop(wm2, ripples, ripples_, nRipples, i + 1, j)
        ELSE [wm |-> wm, j |-> j]

\* WaveModel.prototype.genForces; rnds[k] are the Math.random() results of
\* the k-th Ripple it constructs.
genForces(wm, rnds) ==
    LET ripples  == wm.ripples
        ripples_ == wm.ripples_
        wm1 == [wm EXCEPT !.ripplesToGen = toGenAfterAdd(wm)]
        sp  == spawnLoop([wm |-> wm1, n |-> wm.nRipples], ripples, rnds, 1)
        ap  == applyLoop(sp.wm, ripples, ripples_, sp.n, 0, 0)
    IN  \* this.ripples = ripples_; this.ripples_ = this.ripples; this.nRipples = j
        [ap.wm EXCEPT !.ripples = ripples_,
                      !.ripples_ = ripples_,
                      !.nRipples = ap.j]

\* WaveModel.prototype.insertRipple, given the Ripple object: the object is
\* allocated in wm.obj and its reference stored at ripples[nRipples++].
insertRipple(wm, ripple) ==
    LET id == Len(wm.obj) + 1
    IN  [wm EXCEPT !.obj = Append(@, ripple),
                   !.arr[wm.ripples] = arraySet(@, wm.nRipples, id),
                   !.nRipples = @ + 1]

\* The WaveModel after WaveSim.prototype.addRipple(pos, delay) on a simulation
\* whose wave model is wm (lines 117-122); delay is in milliseconds and rnd are
\* the Math.random() results of the Ripple constructor.  The ripple's iWave
\* is the one init set: only wavelength, r, c and mag are assigned.
addRipple(wm, pos, delay, rnd) ==
    LET ripple == newRipple(wm, rnd)
    IN  insertRipple(wm,
            [ripple EXCEPT
                !.r = pos.r,
                !.c = pos.c,
                !.wavelength =
                    Trunc(boundVal((delay * Scale) \div 20 + 10 * Scale,
                                   10 * Scale, 50 * Scale)),
                !.mag = boundVal((delay * Scale) \div 40 + 5 * Scale,
                                 5 * Scale, 50 * Scale)])

-----------------------------------------------------------------------------
(* Configurations explored.  The presets of the source use 200 x 200 grids  *)
(* and wavelengths of 10 to 80 ticks; the ones below have the same fields   *)
(* on grids and wavelengths small enough to enumerate.                      *)

\* WaveSim configurations (after WaveSim.Conf): the fields the model reads.
SimConfs ==
    {[interactive |-> FALSE, rows |-> 1, cols |-> 1],
     [interactive |-> FALSE, rows |-> 2, cols |-> 2],
     [interactive |-> TRUE,  rows |-> 3, cols |-> 1],
     [interactive |-> FALSE, rows |-> 5, cols |-> 5]}

\* Grid positions a mouse press maps to (toGridPos): the first and the last
\* cell of a rows x cols grid.
GridPositions(rows, cols) ==
    {[r |-> 0, c |-> 0], [r |-> rows - 1, c |-> cols - 1]}

\* Mouse press durations in milliseconds: a click, and a press of a second.
Delays == {0, 1000}

\* No spawning: ripples enter only through insertRipple.
STILL ==
    [isTorus |-> FALSE, ripples |-> Dbl(0, 1), wavelength |-> 3,
     magnitude |-> 10 * Scale, damping |-> 0,
     spawnCol |-> Scale \div 2, spawnRow |-> Scale \div 2]

\* The same on a torus, lightly damped, with the corner as the spawn cell.
STILL_TORUS ==
    [isTorus |-> TRUE, ripples |-> Dbl(0, 1), wavelength |-> 2,
     magnitude |-> 10 * Scale, damping |-> (5 * Scale) \div 100,
     spawnCol |-> 0, spawnRow |-> 0]

\* A single drop in the middle under full damping (after TSUNAMI).
DROP_DAMPED ==
    [isTorus |-> FALSE, ripples |-> Dbl(-1, 1), wavelength |-> 2,
     magnitude |-> 10 * Scale, damping |-> Scale,
     spawnCol |-> Scale \div 2, spawnRow |-> Scale \div 2]

\* Two drops on a torus, at the corner cell (after OCEAN).
OCEAN ==
    [isTorus |-> TRUE, ripples |-> Dbl(-2, 1), wavelength |-> 3,
     magnitude |-> 10 * Scale, damping |-> 0,
     spawnCol |-> 0, spawnRow |-> 0]

\* One ripple every second tick in a random row (after DRIZZLE).
RAIN ==
    [isTorus |-> FALSE, ripples |-> Dbl(1, 2), wavelength |-> 1,
     magnitude |-> 20 * Scale, damping |-> (2 * Scale) \div 100,
     spawnCol |-> Scale \div 2, spawnRow |-> NaN]

\* WaveModel configurations passed to start().
ModelConfs == {STILL, STILL_TORUS, DROP_DAMPED, OCEAN, RAIN}

-----------------------------------------------------------------------------
(* WaveSim: the driver *)

VARIABLES
    conf,           \* this.conf: the WaveSim configuration
    isPaused,       \* this.isPaused
    isProcessing,   \* this.isProcessing
    intervalHandle, \* this.intervalHandle: NULL or the id setInterval returned
    modelConf,      \* this.modelConf
    waveModel,      \* this.waveModel: UNDEFINED or the WaveModel object
    timers,         \* the browser's active interval timers (their ids)
    pc,             \* "idle", or "step": step() is between genForces and modelStep
    thrown,         \* the entry points that have thrown a TypeError since
                    \* start() was last called (start itself included)
    stopped,        \* stop() was called on a started simulation, and start()
                    \* has not been called since
    nSteps,         \* number of steps run on the current wave model
    nStarts,        \* number of start() calls
    nInserts,       \* number of insertRipple and addRipple calls on the
                    \* current model
    clickTime,      \* addHandlers' clickTime: UNDEFINED, Time(0), or the
                    \* time of the press that has not been released
    pressPos        \* addHandlers' pos: UNDEFINED, NullObject, or the grid
                    \* position of the press

vars == <<conf, isPaused, isProcessing, intervalHandle, modelConf, waveModel,
          timers, pc, thrown, stopped, nSteps, nStarts, nInserts, clickTime,
          pressPos>>

\* new WaveSim(conf): the state after the constructor.
Init ==
    /\ conf \in SimConfs
    /\ isPaused = FALSE
    /\ isProcessing = FALSE
    /\ intervalHandle = NULL
    /\ modelConf = UNDEFINED
    /\ waveModel = UNDEFINED
    /\ timers = {}
    /\ pc = "idle"
    /\ thrown = {}
    /\ stopped = FALSE
    /\ nSteps = 0
    /\ nStarts = 0
    /\ nInserts = 0
    /\ clickTime = UNDEFINED
    /\ pressPos = UNDEFINED

\* WaveSim.prototype.start(mc).  setInterval registers a new timer and returns
\* its id before the WaveModel is constructed; when the constructor throws,
\* this.waveModel keeps its previous value.
Start(mc) ==
    /\ pc = "idle"
    /\ nStarts < MaxStarts
    /\ LET id == nStarts + 1
           wm == WaveModel(conf.rows, conf.cols, mc)
       IN  /\ modelConf' = mc
           /\ intervalHandle' = id
           /\ timers' = timers \cup {id}
           /\ waveModel' = IF wm.threw THEN waveModel ELSE wm
           /\ thrown' = IF wm.threw THEN {"start"} ELSE {}
           /\ nSteps' = IF wm.threw THEN nSteps ELSE 0
           /\ nInserts' = IF wm.threw THEN nInserts ELSE 0
    /\ nStarts' = nStarts + 1
    /\ stopped' = FALSE
    /\ UNCHANGED <<clickTime, pressPos>>
    /\ UNCHANGED <<conf, isPaused, isProcessing, pc>>

\* WaveSim.prototype.stop().  The handle is the number setInterval returned;
\* a number has no detach method, so this.intervalHandle.detach() throws a
\* TypeError before the handle is cleared, and the timer is never cancelled.
Stop ==
    /\ pc = "idle"
    /\ IF intervalHandle # NULL
           THEN /\ thrown' = thrown \cup {"stop"}
                /\ stopped' = TRUE
           ELSE UNCHANGED <<thrown, stopped>>
    /\ UNCHANGED <<clickTime, pressPos>>
    /\ UNCHANGED <<conf, isPaused, isProcessing, intervalHandle, modelConf,
                   waveModel, timers, pc, nSteps, nStarts, nInserts>>

\* Variant of StepBegin whose guard tests isProcessing alone.
StepBeginNoPause ==
    /\ pc = "idle"
    /\ timers # {}
    /\ nSteps < MaxTicks
    /\ IF isProcessing
           THEN UNCHANGED <<isProcessing, waveModel, pc, thrown, nSteps>>
           ELSE /\ isProcessing' = TRUE
                /\ IF waveModel = UNDEFINED
                       THEN /\ thrown' = thrown \cup {"step"}
                            /\ UNCHANGED <<waveModel, pc, nSteps>>
                       ELSE /\ \E rnds \in [1..nSpawns(waveModel) -> DrawsFor(waveModel.conf)] :
                                   waveModel' = genForces(waveModel, rnds)
                            /\ pc' = "step"
                            /\ nSteps' = nSteps + 1
                            /\ UNCHANGED thrown
    /\ UNCHANGED <<clickTime, pressPos>>
    /\ UNCHANGED <<conf, isPaused, intervalHandle, modelConf, timers, stopped,
                   nStarts, nInserts>>

\* step(), fired by an interval timer: the guard, isProcessing = true and
\* this.waveModel.genForces() (lines 133-136).  With no wave model the call
\* throws and isProcessing stays true.
StepBegin ==
    /\ pc = "idle"
    /\ timers # {}
    /\ nSteps < MaxTicks
    /\ IF isPaused \/ isProcessing
           THEN UNCHANGED <<isProcessing, waveModel, pc, thrown, nSteps>>
           ELSE /\ isProcessing' = TRUE
                /\ IF waveModel = UNDEFINED
                       THEN /\ thrown' = thrown \cup {"step"}
                            /\ UNCHANGED <<waveModel, pc, nSteps>>
                       ELSE /\ \E rnds \in [1..nSpawns(waveModel) -> DrawsFor(waveModel.conf)] :
                                   waveModel' = genForces(waveModel, rnds)
                            /\ pc' = "step"
                            /\ nSteps' = nSteps + 1
                            /\ UNCHANGED thrown
    /\ UNCHANGED <<clickTime, pressPos>>
    /\ UNCHANGED <<conf, isPaused, intervalHandle, modelConf, timers, stopped,
                   nStarts, nInserts>>

\* step(), continued: this.waveModel.modelStep(), the drawing loop (which only
\* reads M) and isProcessing = false (lines 138-155).
StepEnd ==
    /\ pc = "step"
    /\ waveModel' = modelStep(waveModel)
    /\ isProcessing' = FALSE
    /\ pc' = "idle"
    /\ UNCHANGED <<clickTime, pressPos>>
    /\ UNCHANGED <<conf, isPaused, intervalHandle, modelConf, timers, thrown,
                   stopped, nSteps, nStarts, nInserts>>

\* document.body.onkeydown, installed by addHandlers when conf.interactive.
KeyDown(keyCode) ==
    /\ pc = "idle"
    /\ conf.interactive
    /\ isPaused' = IF keyCode = 32 THEN ~isPaused ELSE isPaused
    /\ UNCHANGED <<clickTime, pressPos>>
    /\ UNCHANGED <<conf, isProcessing, intervalHandle, modelConf, waveModel,
                   timers, pc, thrown, stopped, nSteps, nStarts, nInserts>>

\* A client's waveModel.insertRipple(new Ripple(waveModel)).
InsertRipple ==
    /\ pc = "idle"
    /\ waveModel # UNDEFINED
    /\ nInserts < MaxInserts
    /\ \E rnd \in DrawsFor(waveModel.conf) :
           waveModel' = insertRipple(waveModel, newRipple(waveModel, rnd))
    /\ nInserts' = nInserts + 1
    /\ UNCHANGED <<clickTime, pressPos>>
    /\ UNCHANGED <<conf, isPaused, isProcessing, intervalHandle, modelConf,
                   timers, pc, thrown, stopped, nSteps, nStarts>>

\* canvas.onmousedown at grid position pos and, delay milliseconds later,
\* canvas.onmouseup (installed by addHandlers when conf.interactive), which
\* calls WaveSim.prototype.addRipple(pos, delay) and clears clickTime and pos.
AddRipple(pos, delay) ==
    /\ pc = "idle"
    /\ conf.interactive
    /\ nInserts < MaxInserts
    /\ IF waveModel = UNDEFINED
           THEN UNCHANGED <<waveModel, nInserts>>
           ELSE /\ \E rnd \in DrawsFor(waveModel.conf) :
                       waveModel' = addRipple(waveModel, pos, delay, rnd)
                /\ nInserts' = nInserts + 1
    /\ clickTime' = Time(0)
    /\ pressPos' = NullObject
    /\ UNCHANGED <<conf, isPaused, isProcessing, intervalHandle, modelConf,
                   timers, pc, thrown, stopped, nSteps, nStarts>>

Next ==
    \/ \E mc \in ModelConfs \cup {UNDEFINED} : Start(mc)
    \/ Stop
    \/ StepBegin
    \/ StepEnd
    \/ \E keyCode \in {13, 32} : KeyDown(keyCode)
    \/ InsertRipple

Spec == Init /\ [][Next]_vars

-----------------------------------------------------------------------------
(* The spawn counter over many steps: a simulation that is started with a  *)
(* positive spawn rate and left to run.                                     *)

\* The spawn rates followed, as the quotients <<p, q>> a configuration
\* writes them with (ripples : p / q).
SpawnRatios ==
    {<<1, 20>>, <<1, 10>>, <<1, 4>>, <<3, 10>>, <<1, 2>>, <<7, 10>>, <<1, 1>>,
     <<3, 2>>}

\* A configuration spawning p / q ripples per step at the centre of the grid.
SpawnConf(p, q) ==
    [isTorus |-> FALSE, ripples |-> Dbl(p, q), wavelength |-> 1,
     magnitude |-> Scale, damping |-> (2 * Scale) \div 100,
     spawnCol |-> Scale \div 2, spawnRow |-> Scale \div 2]

SpawnConfs == {SpawnConf(x[1], x[2]) : x \in SpawnRatios}

\* step(), fired by an interval timer on a running simulation, as a whole
\* (lines 133-155): genForces, modelStep, and isProcessing back to false.
StepWhole ==
    /\ pc = "idle"
    /\ timers # {}
    /\ ~(isPaused \/ isProcessing)
    /\ waveModel # UNDEFINED
    /\ nSteps < MaxSpawnTicks
    /\ \E rnds \in [1..nSpawns(waveModel) -> DrawsFor(waveModel.conf)] :
           waveModel' = modelStep(genForces(waveModel, rnds))
    /\ nSteps' = nSteps + 1
    /\ UNCHANGED <<clickTime, pressPos>>
    /\ UNCHANGED <<conf, isPaused, isProcessing, intervalHandle, modelConf,
                   timers, pc, thrown, stopped, nStarts, nInserts>>

SpawnNext ==
    \/ \E mc \in SpawnConfs : Start(mc)
    \/ StepWhole

SpawnSpec == Init /\ [][SpawnNext]_vars

-----------------------------------------------------------------------------
(* A simulation in use: it is started, its timer fires, and ripples are    *)
(* added with the mouse (addRipple) while the space key pauses and resumes  *)
(* it.                                                                      *)

InteractiveNext ==
    \/ \E mc \in ModelConfs : Start(mc)
    \/ StepBegin
    \/ StepEnd
    \/ \E keyCode \in {13, 32} : KeyDown(keyCode)
    \/ \E pos \in GridPositions(conf.rows, conf.cols), delay \in Delays :
           AddRipple(pos, delay)

InteractiveSpec == Init /\ [][InteractiveNext]_vars

-----------------------------------------------------------------------------
(* Shorthands for the properties *)

HasModel == waveModel # UNDEFINED

Rows == 0..(waveModel.rows - 1)

Cols == 0..(waveModel.cols - 1)

\* The matrix a field of the wave model refers to.
Mat(wm, field) == wm.buf[wm[field]]

AllZero(m) == \A r \in DOMAIN m : \A c \in DOMAIN m[r] : m[r][c] = 0

\* The accessor over a frozen copy M0 of the magnitudes.
snapGet(wm, M0, r, c) ==
    get(<<M0>>, [getterFactory(wm, "M", 0) EXCEPT !.cells = 1], r, c).v

\* The force term of cell (r, c) computed from the matrices M0 and F0 alone.
refForce(wm, M0, F0, r, c) ==
    F0[r][c]
    + Mul(-M0[r][c], 4 * Scale + 4 * PI)
    + snapGet(wm, M0, r - 1, c - 1) + Mul(snapGet(wm, M0, r, c - 1), PI)
    + snapGet(wm, M0, r + 1, c - 1) + Mul(snapGet(wm, M0, r - 1, c), PI)
    + Mul(snapGet(wm, M0, r + 1, c), PI) + snapGet(wm, M0, r - 1, c + 1)
    + Mul(snapGet(wm, M0, r, c + 1), PI) + snapGet(wm, M0, r + 1, c + 1)

\* The reference update: every cell's new velocity from the start-of-tick
\* matrices of wm.
refV(wm) ==
    LET M0 == Mat(wm, "M")
        V0 == Mat(wm, "V")
        F0 == Mat(wm, "F")
    IN  [r \in 0..(wm.rows - 1) |-> [c \in 0..(wm.cols - 1) |->
            Mul(V0[r][c], Scale - wm.conf.damping)
            + Mul(refForce(wm, M0, F0, r, c), FORCE_INFLUENCE)]]

\* The reference update: every cell's new magnitude.
refM(wm) ==
    LET M0 == Mat(wm, "M")
        v  == refV(wm)
    IN  [r \in 0..(wm.rows - 1) |-> [c \in 0..(wm.cols - 1) |-> M0[r][c] + v[r][c]]]

reverseOrder(o) == [i \in 1..Len(o) |-> o[Len(o) + 1 - i]]

colMajor(rows, cols) ==
    [i \in 1..(rows * cols) |-> <<(i - 1) % rows, (i - 1) \div rows>>]

\* Every order of visiting the cells of o.
AllOrders(o) ==
    {[i \in 1..Len(o) |-> o[p[i]]] :
        p \in {q \in [1..Len(o) -> 1..Len(o)] :
                  \A i, j \in 1..Len(o) : q[i] = q[j] => i = j}}

\* The visiting orders checked on a rows x cols grid.
Orders(rows, cols) ==
    LET o == rowMajor(rows, cols)
    IN  {o, reverseOrder(o), colMajor(rows, cols)}
        \cup (IF rows * cols <= MaxPermCells THEN AllOrders(o) ELSE {})

-----------------------------------------------------------------------------
(* C1 *)

\* C1: every modelStep call (a step is at pc = "step" when it makes it)
\* computes every cell's new velocity and magnitude from the start-of-tick M,
\* V and F only: the result equals the reference update computed from a
\* frozen snapshot, whatever the order in which the cells are visited.
C1_SnapshotUpdate ==
    pc = "step" =>
        LET M1 == refM(waveModel)
            V1 == refV(waveModel)
        IN  \A order \in Orders(waveModel.rows, waveModel.cols) :
                LET res == modelStepIn(waveModel, order)
                IN  Mat(res, "M") = M1 /\ Mat(res, "V") = V1

\* A step is between genForces and modelStep on a grid of several cells whose
\* magnitudes are not all equal, with a force pending and a next buffer that
\* differs from the current one.
C1_Witness ==
    /\ HasModel
    /\ pc = "step"
    /\ \E r \in Rows, c \in Cols :
           /\ Mat(waveModel, "M")[r][c] # 0
           /\ Mat(waveModel, "M_")[r][c] # Mat(waveModel, "M")[r][c]
           /\ Mat(waveModel, "F")[r][c] # 0
    /\ \E r \in Rows, c \in Cols : Mat(waveModel, "M")[r][c] = 0

-----------------------------------------------------------------------------
(* C2, C3: the boundary accessor *)

\* The accessor modelStep uses, applied to the current magnitudes.
getM(r, c) == get(waveModel.buf, getterFactory(waveModel, "M", 0), r, c)

\* C2: in torus mode the accessor wraps at the edges: get(-1, c) = get(rows-1, c)
\* and get(rows, c) = get(0, c) for every column c, and likewise for the
\* columns at every row r.
C2_TorusWrap ==
    (HasModel /\ waveModel.conf.isTorus) =>
        /\ \A c \in Cols :
               /\ getM(-1, c) = getM(waveModel.rows - 1, c)
               /\ getM(waveModel.rows, c) = getM(0, c)
        /\ \A r \in Rows :
               /\ getM(r, -1) = getM(r, waveModel.cols - 1)
               /\ getM(r, waveModel.cols) = getM(r, 0)

\* The coordinates probed: the grid and MaxOff cells around it.
ProbeRows == (0 - MaxOff)..(waveModel.rows - 1 + MaxOff)

ProbeCols == (0 - MaxOff)..(waveModel.cols - 1 + MaxOff)

\* C3: in non-torus mode the accessor made with default value d returns d at
\* every (r, c) with r < 0, r >= rows, c < 0 or c >= cols, and the stored
\* cell value at every in-range (r, c).
C3_DefaultOutside ==
    (HasModel /\ ~waveModel.conf.isTorus) =>
        \A d \in {0, 7 * Scale} : \A r \in ProbeRows, c \in ProbeCols :
            get(waveModel.buf, getterFactory(waveModel, "M", d), r, c)
                = IF r \in Rows /\ c \in Cols
                      THEN Num(Mat(waveModel, "M")[r][c])
                      ELSE Num(d)

\* A non-torus model has run steps and holds a nonzero magnitude next to the
\* edge of the grid, so that a stored value and the default differ.
C3_Witness ==
    /\ HasModel
    /\ ~waveModel.conf.isTorus
    /\ pc = "idle"
    /\ nSteps >= 2
    /\ \E c \in Cols : Mat(waveModel, "M")[0][c] # 0

-----------------------------------------------------------------------------
(* C4: the lifetime of a ripple *)

\* C4: a ripple of resolved wavelength W >= 1 whose counter started at W has
\* had k - 1 = W - iWave calls of applyForce when its counter is iWave; its
\* k-th call returns true when k < W and false when k = W, and a ripple is
\* called at most W times (0 <= iWave <= W).
C4_ActiveForWMinusOne ==
    HasModel =>
        \A id \in DOMAIN waveModel.obj :
            LET rp == waveModel.obj[id]
                k  == rp.wavelength - rp.iWave + 1
            IN  /\ rp.wavelength >= 1
                /\ 0 <= rp.iWave /\ rp.iWave <= rp.wavelength
                /\ rp.iWave >= 1 =>
                       (applyForceResult(applyForce(waveModel, id), id)
                            <=> k < rp.wavelength)

\* A ripple of wavelength 4 has had its fourth call, which returned false and
\* retired it.
C4_Witness ==
    /\ HasModel
    /\ \E id \in DOMAIN waveModel.obj :
           /\ waveModel.obj[id].wavelength = 4
           /\ waveModel.obj[id].iWave = 0
    /\ waveModel.nRipples = 0

-----------------------------------------------------------------------------
(* C5, C6, C7, C8: the update rule *)

\* C5: a model in which no ripple was ever spawned or inserted (no Ripple
\* object exists) has every cell of M and V, of the next buffers and of F at
\* exactly zero, after any number of steps, on a torus or not.
C5_ZeroStaysZero ==
    (HasModel /\ Len(waveModel.obj) = 0) =>
        /\ AllZero(Mat(waveModel, "M")) /\ AllZero(Mat(waveModel, "V"))
        /\ AllZero(Mat(waveModel, "M_")) /\ AllZero(Mat(waveModel, "V_"))
        /\ AllZero(Mat(waveModel, "F"))

\* Three steps have run on a non-torus model without any ripple.
C5_Witness ==
    /\ HasModel
    /\ Len(waveModel.obj) = 0
    /\ ~waveModel.conf.isTorus
    /\ waveModel.rows > 1
    /\ pc = "idle"
    /\ nSteps >= 3

\* The scenario of C6 after k ticks: a 5 x 5 non-torus grid with damping 0
\* whose only ripple, of wavelength 4 and magnitude 10 at (2, 2), was inserted
\* before the first tick (it has had k calls of applyForce in k steps).
C6_After(k) ==
    /\ HasModel
    /\ waveModel.rows = 5 /\ waveModel.cols = 5
    /\ ~waveModel.conf.isTorus
    /\ waveModel.conf.damping = 0
    /\ nInserts = 1
    /\ waveModel.obj = <<[wavelength |-> 4, iWave |-> 4 - k, r |-> 2, c |-> 2,
                          mag |-> 10 * Scale]>>
    /\ pc = "idle"
    /\ nSteps = k

\* C6 as claimed: after the first tick (genForces, then modelStep) the
\* magnitude at (2, 2) is nonzero.
C6_NonzeroAfterFirstTick ==
    C6_After(1) => Mat(waveModel, "M")[2][2] # 0

\* C6 as amended: the ripple's first force sample is mag * sin(0) = 0, so after
\* the first tick the magnitude at (2, 2) (and everywhere) is still exactly
\* zero; it is nonzero at (2, 2) after the second tick.
C6_NonzeroAfterSecondTick ==
    /\ C6_After(1) => AllZero(Mat(waveModel, "M"))
    /\ C6_After(2) => Mat(waveModel, "M")[2][2] # 0

\* The first tick of the scenario has run.
C6_Witness == C6_After(1) /\ Mat(waveModel, "F")[2][2] = 0

\* The cells of the current grid.
Cells == Rows \X Cols

\* C7: when a modelStep is called with M and V all zero and F nonzero at the
\* single cell s, every other cell has magnitude and velocity exactly zero
\* after it.
C7_NoSpreadInOneTick ==
    (pc = "step" /\ AllZero(Mat(waveModel, "M")) /\ AllZero(Mat(waveModel, "V"))) =>
        \A s \in Cells :
            (\A x \in Cells : (Mat(waveModel, "F")[x[1]][x[2]] # 0) <=> (x = s)) =>
                LET res == modelStep(waveModel)
                IN  \A x \in Cells \ {s} :
                        /\ Mat(res, "M")[x[1]][x[2]] = 0
                        /\ Mat(res, "V")[x[1]][x[2]] = 0

\* On the 5 x 5 grid a step has just moved the cell (2, 2), and only it, away
\* from an all-zero state: its eight neighbours and the cells farther away are
\* at zero.
C7_Witness ==
    /\ HasModel
    /\ waveModel.rows = 5 /\ waveModel.cols = 5
    /\ pc = "idle"
    /\ AllZero(Mat(waveModel, "M_")) /\ AllZero(Mat(waveModel, "V_"))
    /\ \A x \in Cells :
           /\ (Mat(waveModel, "M")[x[1]][x[2]] # 0) <=> (x = <<2, 2>>)
           /\ (Mat(waveModel, "V")[x[1]][x[2]] # 0) <=> (x = <<2, 2>>)

\* A modelStep is called under full damping with no active ripple and no
\* force pending.
C8_Pre ==
    /\ pc = "step"
    /\ waveModel.conf.damping = Scale
    /\ waveModel.nRipples = 0
    /\ AllZero(Mat(waveModel, "F"))

\* C8 as claimed: under damping = 1 with no ripples, a cell whose velocity is
\* nonzero at the start of a tick has velocity exactly zero after the
\* modelStep.
C8_VelocityZeroNextTick ==
    C8_Pre =>
        \A x \in Cells :
            Mat(waveModel, "V")[x[1]][x[2]] # 0 =>
                Mat(modelStep(waveModel), "V")[x[1]][x[2]] = 0

\* C8 as amended: under damping = 1 with no ripples the previous velocity
\* contributes nothing: a cell's velocity after the modelStep is
\* FORCE_INFLUENCE times the force on it (the restoring term -M * (4 + 4 PI)
\* plus the weighted neighbour magnitudes), whatever its velocity was, and so
\* is exactly zero where that force is zero.
C8_VelocityIsForceOnly ==
    C8_Pre =>
        \A x \in Cells :
            Mat(modelStep(waveModel), "V")[x[1]][x[2]]
                = Mul(refForce(waveModel, Mat(waveModel, "M"), Mat(waveModel, "F"),
                               x[1], x[2]),
                      FORCE_INFLUENCE)

\* The case: full damping, the ripple retired, and a cell still moving.
C8_Witness ==
    /\ HasModel
    /\ C8_Pre
    /\ Len(waveModel.obj) > 0
    /\ \E x \in Cells :
           /\ Mat(waveModel, "V")[x[1]][x[2]] # 0
           /\ Mat(waveModel, "M")[x[1]][x[2]] # 0

-----------------------------------------------------------------------------
(* C9, C10: starting and stopping *)

\* C9: after stop() on a started simulation the call has completed without
\* error, intervalHandle is null and the timer start() registered is
\* cancelled, so that no further step runs until start() is called again.
C9_StopCancelsTimer ==
    stopped =>
        /\ "stop" \notin thrown
        /\ intervalHandle = NULL
        /\ nStarts \notin timers

\* C10: after start() without a model configuration no error was raised and
\* the wave model exists with conf = WaveModel.Conf.DRIZZLE and, before its
\* first step, a spawn counter of 0.
C10_DefaultConf ==
    (intervalHandle # NULL /\ modelConf = UNDEFINED) =>
        /\ "start" \notin thrown
        /\ HasModel
        /\ waveModel.conf = DRIZZLE
        /\ nSteps = 0 => waveModel.ripplesToGen = Dbl(0, 1)

-----------------------------------------------------------------------------
(* C11, C12: spawning *)

\* The integer k of a spawn rate -k or k.
rateInt(wm) == wm.conf.ripples.hi \div Limb

\* C11: a model with the negative integer spawn rate -k and no insertRipple
\* call has spawned no ripple before its first genForces call and exactly k
\* ripples after it and after every later one, its spawn counter being k
\* before the first call and 0 from then on.
C11_SeededOnce ==
    (HasModel /\ dblLt0(waveModel.conf.ripples) /\ waveModel.conf.ripples.lo = 0
        /\ waveModel.conf.ripples.hi % Limb = 0 /\ nInserts = 0) =>
        IF nSteps = 0
            THEN /\ Len(waveModel.obj) = 0
                 /\ waveModel.ripplesToGen = Dbl(rateInt(waveModel), 1)
            ELSE /\ Len(waveModel.obj) = rateInt(waveModel)
                 /\ waveModel.ripplesToGen = Dbl(0, 1)

\* A model with rate -2 has made three genForces calls.
C11_Witness ==
    /\ HasModel
    /\ waveModel.conf.ripples = Dbl(-2, 1)
    /\ nInserts = 0
    /\ nSteps >= 3
    /\ Len(waveModel.obj) = 2

\* The spawn counter is in [0, 1).
counterInUnit(wm) == ~wm.ripplesToGen.neg /\ wm.ripplesToGen.hi < Limb

rateQuarters(wm) == wm.conf.ripples.hi \div (Limb \div 4)

-----------------------------------------------------------------------------
(* C13: the active set *)

\* The active set of wm: ripples[0..nRipples), as references to Ripple objects.
Active(wm) == SubSeq(wm.arr[wm.ripples], 1, wm.nRipples)

\* The references of the Ripple objects the next genForces call of wm
\* constructs, in order.
Spawned(wm) == [k \in 1..nSpawns(wm) |-> Len(wm.obj) + k]

\* C13: at any point between steps, after any interleaving of genForces and
\* insertRipple calls, the active set holds no ripple twice, and a genForces
\* call invokes applyForce exactly once on every ripple of the active set and
\* on every ripple it spawns (their remaining-ticks counters drop by one) and
\* on no other ripple (the retired ones keep theirs); afterwards the active
\* set holds exactly the ripples whose call returned true, each once, in
\* their previous order.
C13_CompactionKeepsActive ==
    (HasModel /\ pc = "idle") =>
        /\ \A i, j \in 1..waveModel.nRipples :
               Active(waveModel)[i] = Active(waveModel)[j] => i = j
        /\ \A rnds \in [1..nSpawns(waveModel) -> DrawsFor(waveModel.conf)] :
               LET res    == genForces(waveModel, rnds)
                   called == Active(waveModel) \o Spawned(waveModel)
                   Alive(id) == res.obj[id].iWave # 0
                   before(id) ==
                       IF id <= Len(waveModel.obj) THEN waveModel.obj[id].iWave
                                                   ELSE res.obj[id].wavelength
               IN  /\ \A id \in 1..Len(res.obj) :
                          res.obj[id].iWave =
                              IF \E k \in 1..Len(called) : called[k] = id
                                  THEN before(id) - 1
                                  ELSE before(id)
                   /\ Active(res) = SelectSeq(called, Alive)

\* A genForces call has just retired the first of two active ripples: the
\* second, inserted while the first was active, has moved to the front.
C13_Witness ==
    /\ HasModel
    /\ pc = "step"
    /\ nSteps = 3
    /\ Len(waveModel.obj) = 2
    /\ waveModel.obj[1].wavelength = 3
    /\ waveModel.obj[1].iWave = 0
    /\ waveModel.obj[2].iWave > 0
    /\ waveModel.obj[2].iWave < waveModel.obj[2].wavelength
    /\ Active(waveModel) = <<2>>

-----------------------------------------------------------------------------
(* C14: the torus accessor far outside the grid *)

\* C14: on a torus, for every (r, c) up to MaxOff grid heights above or below
\* the grid and MaxOff grid widths left or right of it, Utils.mod wraps r
\* into [0, rows) and c into [0, cols), and the accessor returns a number (a
\* stored cell), neither throwing nor returning undefined.
C14_TorusWrapsAnywhere ==
    (HasModel /\ waveModel.conf.isTorus) =>
        \A r \in (0 - MaxOff * waveModel.rows)..(MaxOff * waveModel.rows) :
            \A c \in (0 - MaxOff * waveModel.cols)..(MaxOff * waveModel.cols) :
                /\ mod(r, waveModel.rows) \in Rows
                /\ mod(c, waveModel.cols) \in Cols
                /\ getM(r, c).t = "number"

-----------------------------------------------------------------------------
(* C15: the remaining-ticks counter of a ripple the mouse added *)

\* C15: between steps every ripple of the active set has a remaining-ticks
\* counter iWave with 1 <= iWave <= wavelength; a ripple genForces constructs
\* has iWave = wavelength; and before the first genForces call of a model
\* every ripple of its active set, none of which has been applied yet, has
\* iWave = wavelength.
C15_RemainingStartsAtWavelength ==
    (HasModel /\ pc = "idle") =>
        /\ \A k \in 1..waveModel.nRipples :
               LET rp == waveModel.obj[Active(waveModel)[k]]
               IN  /\ 1 <= rp.iWave
                   /\ rp.iWave <= rp.wavelength
                   /\ nSteps = 0 => rp.iWave = rp.wavelength
        /\ \A rnd \in DrawsFor(waveModel.conf) :
               newRipple(waveModel, rnd).iWave = newRipple(waveModel, rnd).wavelength

-----------------------------------------------------------------------------
(* C16: the force a genForces call leaves at a cell *)

\* Force values a cell may hold when genForces is called.
PriorForces == {0, 7 * Scale}

\* wm with every cell of F holding f0.
withForce(wm, f0) ==
    [wm EXCEPT !.buf[wm.F] = [r \in 0..(wm.rows - 1) |-> [c \in 0..(wm.cols - 1) |-> f0]]]

\* The positions k of the sequence called whose ripple, an object of model
\* res, sits on cell (r, c).
OnCell(res, called, r, c) ==
    {k \in 1..Len(called) : res.obj[called[k]].r = r /\ res.obj[called[k]].c = c}

\* The largest member of a non-empty set of numbers.
Last(S) == CHOOSE k \in S : \A j \in S : j <= k

\* C16: between steps, whatever force f0 the cells of F hold, a genForces
\* call leaves at every cell that is the target of at least one ripple it
\* applies (the active set followed by the ripples it spawns) the force of
\* the last such ripple in that order, mag * sin(2 PI wavePos) at the wavePos
\* the ripple had in the call, and leaves f0 at every other cell.
C16_LastRippleWins ==
    (HasModel /\ pc = "idle") =>
        \A f0 \in PriorForces :
            \A rnds \in [1..nSpawns(waveModel) -> DrawsFor(waveModel.conf)] :
                LET res    == genForces(withForce(waveModel, f0), rnds)
                    called == Active(waveModel) \o Spawned(waveModel)
                IN  \A x \in Cells :
                        LET on == OnCell(res, called, x[1], x[2])
                        IN  Mat(res, "F")[x[1]][x[2]] =
                                IF on = {}
                                    THEN f0
                                    ELSE LET rp == res.obj[called[Last(on)]]
                                         IN  rippleForce([rp EXCEPT !.iWave = @ + 1])

\* A genForces call has just applied three ripples to one cell, and the force
\* at the cell is the one of the third, which differs from the force of the
\* first and from the sum of the three.
C16_Witness ==
    /\ HasModel
    /\ pc = "step"
    /\ waveModel.nRipples = 3
    /\ Len(waveModel.obj) = 3
    /\ \A id \in 2..3 : /\ waveModel.obj[id].r = waveModel.obj[1].r
                        /\ waveModel.obj[id].c = waveModel.obj[1].c
    /\ LET f(id) == rippleForce([waveModel.obj[id] EXCEPT !.iWave = @ + 1])
           here  == Mat(waveModel, "F")[waveModel.obj[1].r][waveModel.obj[1].c]
       IN  /\ here = f(3)
           /\ here # f(1)
           /\ here # f(1) + f(2) + f(3)

-----------------------------------------------------------------------------
(* C17: forces last one tick *)

\* C17: every cell of F is zero after a modelStep call: in every state
\* between steps, and after the modelStep that follows any genForces call.
C17_ForceZeroAfterStep ==
    HasModel =>
        /\ pc = "idle" => AllZero(Mat(waveModel, "F"))
        /\ pc = "step" => AllZero(Mat(modelStep(waveModel), "F"))

\* A second step has ended: ripples had written a force, the cells are moving
\* and F is clear.
C17_Witness ==
    /\ HasModel
    /\ pc = "idle"
    /\ nSteps >= 2
    /\ waveModel.nRipples >= 1
    /\ ~AllZero(Mat(waveModel, "V"))
    /\ AllZero(Mat(waveModel, "F"))

-----------------------------------------------------------------------------
(* C18: the buffers are exchanged, not copied *)

\* C18: M and M_ always refer to two distinct buffers, and so do V and V_;
\* a modelStep call exchanges the two references of each pair, it leaves the
\* contents of the buffers that were M and V as they were, and the five
\* references F, V, V_, M, M_ stay pairwise distinct.
C18_BuffersSwapped ==
    HasModel =>
        /\ waveModel.M # waveModel.M_
        /\ waveModel.V # waveModel.V_
        /\ Cardinality({waveModel.F, waveModel.V, waveModel.V_,
                        waveModel.M, waveModel.M_}) = 5
        /\ pc = "step" =>
               LET res == modelStep(waveModel)
               IN  /\ res.M = waveModel.M_ /\ res.M_ = waveModel.M
                   /\ res.V = waveModel.V_ /\ res.V_ = waveModel.V
                   /\ res.F = waveModel.F
                   /\ res.buf[res.M_] = waveModel.buf[waveModel.M]
                   /\ res.buf[res.V_] = waveModel.buf[waveModel.V]

\* Three steps have ended on a moving grid: the references have been exchanged
\* an odd number of times, and the current and the previous magnitudes differ.
C18_Witness ==
    /\ HasModel
    /\ pc = "idle"
    /\ nSteps = 3
    /\ waveModel.M = WaveModel(waveModel.rows, waveModel.cols, waveModel.conf).M_
    /\ waveModel.V = WaveModel(waveModel.rows, waveModel.cols, waveModel.conf).V_
    /\ Mat(waveModel, "M") # Mat(waveModel, "M_")

-----------------------------------------------------------------------------
(* C19: the isProcessing flag *)

\* C19: isProcessing is true while a step is between its genForces and its
\* modelStep call, and false whenever no step is executing.
C19_ProcessingOnlyDuringStep ==
    /\ pc = "step" => isProcessing
    /\ pc = "idle" => ~isProcessing

-----------------------------------------------------------------------------
(* C20: pausing *)

\* C20: while the simulation is paused, no step other than a start() or an
\* addRipple call changes the wave model (its matrices, spawn counter, active
\* set and ripples): timer firings and key presses leave it as it is; a press
\* of the space key toggles isPaused, and no step that changes isPaused
\* changes the wave model.
C20_PauseFreezesModel ==
    [][/\ (/\ isPaused
           /\ ~(\E mc \in ModelConfs : Start(mc))
           /\ ~(\E pos \in GridPositions(conf.rows, conf.cols), delay \in Delays :
                    AddRipple(pos, delay)))
          => UNCHANGED waveModel
       /\ KeyDown(32) => isPaused' = ~isPaused
       /\ isPaused' # isPaused => UNCHANGED waveModel]_vars

\* The simulation is paused after two steps, with its timer running, a ripple
\* in the active set and the grid in motion.
C20_Witness ==
    /\ isPaused
    /\ HasModel
    /\ timers # {}
    /\ pc = "idle"
    /\ nSteps = 2
    /\ waveModel.nRipples >= 1
    /\ ~AllZero(Mat(waveModel, "V"))

-----------------------------------------------------------------------------
(* C21: every ripple is retired *)

\* Configurations that spawn nothing, or only at the first step.
OneShotConfs == {mc \in ModelConfs : ~dblGt0(mc.ripples)}

\* A simulation whose timer keeps firing: it is started with a one-shot
\* configuration, ripples are inserted (insertRipple) and added with the mouse
\* (addRipple) during its first MaxTicks steps, and it runs on after that.
RetireNext ==
    \/ \E mc \in OneShotConfs : Start(mc)
    \/ StepWhole
    \/ nSteps < MaxTicks /\ InsertRipple
    \/ \E pos \in GridPositions(conf.rows, conf.cols), delay \in Delays :
           nSteps < MaxTicks /\ AddRipple(pos, delay)

\* The StepWhole steps seen from the step counter: StepCounted is enabled
\* exactly when StepWhole is (a step finds Math.random() results for every
\* ripple it constructs), and among the steps of RetireNext the ones that
\* raise nSteps by one are exactly the StepWhole steps.
StepCounted ==
    /\ pc = "idle"
    /\ timers # {}
    /\ ~(isPaused \/ isProcessing)
    /\ waveModel # UNDEFINED
    /\ nSteps < MaxSpawnTicks
    /\ nSteps' = nSteps + 1

\* setInterval fires the timer again and again: a step that stays possible
\* is taken.
RetireSpec == Init /\ [][RetireNext]_vars /\ WF_nSteps(StepCounted)

\* C21: the remaining-ticks counter of a ripple never goes below zero, and
\* from some step on the active set is empty for good.
C21_EventuallyRetired ==
    /\ [](HasModel => \A id \in 1..Len(waveModel.obj) : waveModel.obj[id].iWave >= 0)
    /\ <>[](HasModel => waveModel.nRipples = 0)

\* Every ripple of the model, three of them, has been retired.
C21_Witness ==
    /\ HasModel
    /\ Len(waveModel.obj) = 3
    /\ waveModel.nRipples = 0
    /\ \A id \in 1..3 : waveModel.obj[id].iWave = 0

-----------------------------------------------------------------------------
(* C22: the mouse handlers *)

\* new Date().getTime() at a press or at a move out of a cell: some positive
\* number of milliseconds.  The handlers test it against 0 and subtract it
\* from the time of the release, which is the input delay here.
CLICKED == 1

\* Ripples added with the mouse to one wave model.
MaxMouseRipples == 2

\* Steps of the timer followed on one wave model under the mouse.
MaxMouseTicks == 1

\* Variant of AddRippleCall without the guard of line 116: new Ripple(undefined)
\* throws a TypeError in init.
AddRippleCallUnguarded(p, delay) ==
    IF waveModel = UNDEFINED
        THEN /\ thrown' = thrown \cup {"addRipple"}
             /\ UNCHANGED <<waveModel, nInserts>>
        ELSE /\ \E rnd \in DrawsFor(waveModel.conf) :
                    waveModel' = addRipple(waveModel, p, delay, rnd)
             /\ nInserts' = nInserts + 1
             /\ UNCHANGED thrown

\* self.addRipple(p, delay) as a handler calls it: without a wave model the
\* method returns at once (line 116).
AddRippleCall(p, delay) ==
    IF waveModel = UNDEFINED
        THEN UNCHANGED <<waveModel, nInserts, thrown>>
        ELSE /\ \E rnd \in DrawsFor(waveModel.conf) :
                    waveModel' = addRipple(waveModel, p, delay, rnd)
             /\ nInserts' = nInserts + 1
             /\ UNCHANGED thrown

\* canvas.onmousedown with the pointer over grid position p (lines 222-225).
OnMouseDown(p) ==
    /\ pc = "idle"
    /\ conf.interactive
    /\ clickTime' = Time(CLICKED)
    /\ pressPos' = p
    /\ UNCHANGED <<conf, isPaused, isProcessing, intervalHandle, modelConf,
                   waveModel, timers, pc, thrown, stopped, nSteps, nStarts,
                   nInserts>>

\* canvas.onmouseup, delay milliseconds after clickTime (lines 226-232).
OnMouseUp(delay) ==
    /\ pc = "idle"
    /\ conf.interactive
    /\ nInserts < MaxMouseRipples
    /\ IF clickTime \in {UNDEFINED, Time(0)}
           THEN UNCHANGED <<waveModel, nInserts, thrown, clickTime, pressPos>>
           ELSE /\ AddRippleCall(pressPos, delay)
                /\ clickTime' = Time(0)
                /\ pressPos' = NullObject
    /\ UNCHANGED <<conf, isPaused, isProcessing, intervalHandle, modelConf,
                   timers, pc, stopped, nSteps, nStarts>>

\* canvas.onmousemove with the pointer over grid position p, delay
\* milliseconds after clickTime (lines 235-244).
OnMouseMove(p, delay) ==
    /\ pc = "idle"
    /\ conf.interactive
    /\ nInserts < MaxMouseRipples
    /\ IF clickTime \in {UNDEFINED, Time(0)}
           THEN UNCHANGED <<waveModel, nInserts, thrown, clickTime, pressPos>>
           ELSE IF p.r # pressPos.r \/ p.c # pressPos.c
                    THEN /\ AddRippleCall(pressPos, delay)
                         /\ clickTime' = Time(CLICKED)
                         /\ pressPos' = p
                    ELSE UNCHANGED <<waveModel, nInserts, thrown, clickTime,
                                     pressPos>>
    /\ UNCHANGED <<conf, isPaused, isProcessing, intervalHandle, modelConf,
                   timers, pc, stopped, nSteps, nStarts>>

\* An interactive simulation under the mouse: presses, moves and releases in
\* any order, before and after start(), before and after the first
\* MaxMouseTicks steps of the timer.
MouseNext ==
    \/ \E mc \in ModelConfs : Start(mc)
    \/ nSteps < MaxMouseTicks /\ StepBegin
    \/ StepEnd
    \/ \E p \in GridPositions(conf.rows, conf.cols) : OnMouseDown(p)
    \/ \E p \in GridPositions(conf.rows, conf.cols), delay \in Delays :
           OnMouseMove(p, delay)
    \/ \E delay \in Delays : OnMouseUp(delay)

MouseSpec == Init /\ [][MouseNext]_vars

\* A press is held: mousedown has not been followed by mouseup.
Pressed == clickTime \notin {UNDEFINED, Time(0)}

\* The step adds exactly one ripple, at grid position p, at the end of the
\* active set, and changes nothing else of the wave model.
OneRippleAddedAt(p) ==
    LET new == Len(waveModel.obj) + 1
    IN  /\ Len(waveModel'.obj) = new
        /\ waveModel'.obj[new].r = p.r
        /\ waveModel'.obj[new].c = p.c
        /\ SubSeq(waveModel'.obj, 1, new - 1) = waveModel.obj
        /\ Active(waveModel') = Append(Active(waveModel), new)
        /\ [waveModel' EXCEPT !.obj = waveModel.obj, !.arr = waveModel.arr,
                              !.nRipples = waveModel.nRipples] = waveModel

\* The step is a mouse event.
MouseEvent ==
    \/ \E p \in GridPositions(conf.rows, conf.cols) : OnMouseDown(p)
    \/ \E p \in GridPositions(conf.rows, conf.cols), delay \in Delays :
           OnMouseMove(p, delay)
    \/ \E delay \in Delays : OnMouseUp(delay)

\* C22: a mouse event raises no error and, without a wave model, adds
\* nothing; outside the timer's steps and start() the wave model changes only
\* while a press is held, by exactly one ripple at the pressed cell, in a
\* step that releases the press or moves it to another cell; a mouseup on a
\* held press adds one ripple at the pressed cell and ends the press; a
\* mousemove on a held press adds one ripple at the cell it leaves and none
\* within the same cell; a mousedown adds none.
C22_RipplesOnlyFromPresses ==
    [][/\ MouseEvent => thrown' = thrown
       /\ (MouseEvent /\ ~HasModel) => UNCHANGED waveModel
       /\ (/\ HasModel
           /\ nSteps' = nSteps /\ nStarts' = nStarts /\ pc' = pc
           /\ waveModel' # waveModel)
          => /\ Pressed
             /\ OneRippleAddedAt(pressPos)
             /\ clickTime' = Time(0) \/ pressPos' # pressPos
       /\ \A delay \in Delays :
              (OnMouseUp(delay) /\ HasModel) =>
                  IF Pressed
                      THEN OneRippleAddedAt(pressPos) /\ ~Pressed'
                      ELSE UNCHANGED waveModel
       /\ \A p \in GridPositions(conf.rows, conf.cols), delay \in Delays :
              (OnMouseMove(p, delay) /\ HasModel) =>
                  IF Pressed /\ p # pressPos
                      THEN OneRippleAddedAt(pressPos) /\ pressPos' = p /\ Pressed'
                      ELSE UNCHANGED <<waveModel, clickTime, pressPos>>
       /\ \A p \in GridPositions(conf.rows, conf.cols) :
              OnMouseDown(p) => UNCHANGED waveModel]_vars

\* One press on a model that has not stepped yet: down on the first cell,
\* moved to the last cell, released there; the model holds two ripples, one
\* at the cell left and one at the cell of the release.
C22_Witness ==
    /\ HasModel
    /\ nSteps = 0
    /\ clickTime = Time(0)
    /\ pressPos = NullObject
    /\ Len(waveModel.obj) = 2
    /\ waveModel.nRipples = 2
    /\ waveModel.obj[1].r = 0
    /\ waveModel.obj[2].r = waveModel.rows - 1
    /\ waveModel.rows > 1

=============================================================================
